---- MODULE Spec2Model ----
(***************************************************************************)
(* GLQueueRunner (ext/native/thin3d/GLQueueRunner.cpp): the deferred GL    *)
(* command executor.  RunInitSteps replays resource-creation steps,        *)
(* RunSteps replays render steps (PerformRenderPass, PerformCopy, ...),    *)
(* AllocTextureName hands out pooled texture names.                        *)
(*                                                                         *)
(* The GL device is modelled by the state the runner's calls act on, and   *)
(* `calls` is the sequence of device calls (and delete[] of CPU payloads)  *)
(* issued by the most recent step of the interpreter.                      *)
(*                                                                         *)
(* A batch is an input the interpreter reads front to back and never      *)
(* looks ahead in: the model draws each step / command when the loop       *)
(* reaches it, and the list ends where the loop condition first fails.     *)
(* Only commands.empty() is read ahead, so a render step carries it.       *)
(***************************************************************************)
EXTENDS Integers, Sequences, FiniteSets, TLC

\* ---------------------------------------------------------------- bounds
MaxSteps == 2        \* render steps in one RunSteps batch
MaxCmds == 2         \* commands in one render pass
MaxInitSteps == 3    \* init steps run in one behaviour
MaxAllocs == 18      \* AllocTextureName calls in one behaviour
MaxContexts == 2     \* CreateDeviceObjects calls in one behaviour

\* ------------------------------------------------------ program constants
TEXCACHE_NAME_CACHE_SIZE == 16
SEM_MAX == 7
GL_TEXTURE0 == 33984
MaskBits == 8        \* bits of semanticsMask_ the model distinguishes

\* ------------------------------------------------------------ input sets
NoFB == 0
Framebuffers == {1, 2}
FBWidth(fb) == IF fb = 1 THEN 512 ELSE 256
FBHeight(fb) == IF fb = 1 THEN 200 ELSE 128
FBColorTex(fb) == 10 + fb
FBDepthTex(fb) == 20 + fb
PassTargets == {NoFB, 1}         \* step.render.framebuffer of the recorded passes
TargetWidths == {480}
TargetHeights == {200}

VARIABLES
    \* build and device configuration
    build,              \* "GL" (desktop), "GLES" (USING_GLES2, not IOS), "IOS"
    gl_extensions,      \* [GLES3, ver33, ARB_copy_image, NV_copy_image]
    featureFlags,       \* gstate_c.featureFlags & GPU_SUPPORTS_DUALSOURCE_BLEND
    \* control
    pc,                 \* "idle", "init", "steps", "pass", "crashed"
    calls,              \* device calls issued by the last interpreter step
    \* GLQueueRunner members
    targetWidth_, targetHeight_, curFBWidth_, curFBHeight_, curFramebuffer_,
    nameCache_, globalVAO_,
    \* RunSteps / PerformRenderPass
    stepIdx, step, deleted, cmdIdx, cmd,
    curProgram, activeTexture, attrMask,
    \* GL device state touched by a render pass
    glScissorTest, glColorMask, glAttribEnabled, glActiveTex,
    glArrayBuffer, glElementBuffer, glVertexArray, glProgram,
    \* RunInitSteps
    initIdx, initStep, executed,
    initTotal,          \* init steps run so far
    textures, buffers, shaders, programs,   \* the resource records
    compiled, linked,                       \* what the device answered per record
    \* GL device objects
    glTexNames,         \* texture names in use
    glBufNames,         \* buffer names in use
    glObjects,          \* live shader and program objects
    glDeletedShaders,   \* shader names deleted and not handed out again
    glBoundTexture,     \* the texture bound to GL_TEXTURE_2D
    glTexImages,        \* the textures that hold an uploaded image
    glVAOs,             \* vertex array names in use
    \* history of the texture name pool
    allocs,             \* AllocTextureName calls so far
    refills,            \* glGenTextures refills so far
    returned,           \* the names AllocTextureName returned, in order
    dropped,            \* pooled names DestroyDeviceObjects deleted
    contexts            \* CreateDeviceObjects calls so far

cfgVars == <<build, gl_extensions, featureFlags>>
memberVars == <<targetWidth_, targetHeight_, curFBWidth_, curFBHeight_, curFramebuffer_>>
stepVars == <<stepIdx, step, deleted, cmdIdx, cmd>>
shadowVars == <<curProgram, activeTexture, attrMask>>
glPassVars == <<glScissorTest, glColorMask, glAttribEnabled, glActiveTex,
                glArrayBuffer, glElementBuffer, glVertexArray, glProgram>>
initVars == <<initIdx, initStep, executed, initTotal, textures, buffers, shaders, programs,
              compiled, linked>>
glObjVars == <<glBufNames, glObjects, glDeletedShaders, glBoundTexture, glTexImages>>
allocVars == <<nameCache_, globalVAO_, glVAOs, glTexNames, allocs, refills, returned,
               dropped, contexts>>

vars == <<cfgVars, pc, calls, memberVars, stepVars, shadowVars, glPassVars,
          initVars, glObjVars, allocVars>>

\* ------------------------------------------------------------- helpers
\* the device context is up: CreateDeviceObjects has run, DestroyDeviceObjects has not
HasContext == globalVAO_ \in glVAOs

Call(fn, args) == [fn |-> fn, args |-> args]

CallsTo(log, fn) == SelectSeq(log, LAMBDA c : c.fn = fn)

Range(s) == {s[k] : k \in 1..Len(s)}

\* 2^n
RECURSIVE Pow2(_)
Pow2(n) == IF n = 0 THEN 1 ELSE 2 * Pow2(n - 1)

\* mask & (1 << i)
Bit(mask, i) == (mask \div Pow2(i)) % 2 = 1

\* a & ~b on the low MaskBits bits
RECURSIVE AndNotFrom(_, _, _)
AndNotFrom(a, b, i) ==
    IF i = MaskBits THEN 0
    ELSE (IF Bit(a, i) /\ ~Bit(b, i) THEN Pow2(i) ELSE 0) + AndNotFrom(a, b, i + 1)
AndNot(a, b) == AndNotFrom(a, b, 0)

\* (GLint)f for a float f held in half units: truncation toward zero
FloatToGLint(h2) == IF h2 >= 0 THEN h2 \div 2 ELSE -((-h2) \div 2)

\* ------------------------------------------------------------ render input
NoCmd == [cmd |-> "NONE"]
NoStep == [stepType |-> "NONE"]
NullLoc == -2            \* c.uniform4.loc == nullptr
NoName == "NULL"         \* c.uniform4.name == nullptr
LayoutMasks == {3, 6, 130}    \* semanticsMask_ of the recorded layouts
TextureSlots == {0, 1}
RenderBuffers == {0, 1}  \* 0: null buffer pointer; 1: a buffer whose name is 1
RenderTextures == {0, 7} \* 0: null texture pointer; 7: a texture whose name is 7
RenderPrograms == {1}    \* program names bound by BINDPROGRAM
UniformLocs == {-1, 3}   \* what a uniform location resolves to

ViewportCmds ==
    {[cmd |-> "VIEWPORT", x |-> 0, y2 |-> y2, w |-> 100, h2 |-> 100] : y2 \in {20, 21}}
ScissorCmds ==
    {[cmd |-> "SCISSOR", x |-> 0, y |-> y, w |-> 100, h |-> 50] : y \in {10}}
UniformCmds ==
    {[cmd |-> k, loc |-> l, name |-> n, count |-> ct] :
        k \in {"UNIFORM4F", "UNIFORM4I"}, l \in {NullLoc, 3},
        n \in {NoName, "u_tex"}, ct \in {4}}
    \cup {[cmd |-> "UNIFORMMATRIX", loc |-> l, name |-> n, count |-> 1] :
        l \in {NullLoc, 3}, n \in {NoName, "u_tex"}}
BindTextureCmds ==
    {[cmd |-> "BINDTEXTURE", slot |-> s, texture |-> t] :
        s \in TextureSlots, t \in RenderTextures}
BindInputLayoutCmds ==
    {[cmd |-> "BIND_INPUT_LAYOUT", semanticsMask_ |-> m] : m \in LayoutMasks}
DrawIndexedCmds ==
    {[cmd |-> "DRAW_INDEXED", instances |-> n] : n \in {0, 1, 2}}
ClearCmds ==
    {[cmd |-> "CLEAR", clearMask |-> m] :
        m \in {{}, {"COLOR"}, {"DEPTH", "STENCIL"}}}
BlendCmds ==
    {[cmd |-> "BLEND", enabled |-> TRUE, mask |-> 7],
     [cmd |-> "BLEND", enabled |-> FALSE, mask |-> 15]}
BindBufferCmds ==
    {[cmd |-> k, buffer |-> b] :
        k \in {"BIND_VERTEX_BUFFER", "BIND_INDEX_BUFFER"}, b \in RenderBuffers}
FlagCmds ==
    {[cmd |-> k, enabled |-> e] : k \in {"DEPTH", "STENCILFUNC"}, e \in BOOLEAN}
RasterCmds ==
    {[cmd |-> "RASTER", cullEnable |-> c, ditherEnable |-> ~c] : c \in BOOLEAN}
SamplerCmds ==
    {[cmd |-> "TEXTURESAMPLER", anisotropy |-> a] : a \in {0, 4}}
PlainCmds ==
    {[cmd |-> k] : k \in {"BLENDCOLOR", "STENCILOP", "GENMIPS", "DRAW"}}

\* ------------------------------------------------- PerformRenderPass parts

\* step.commands.empty()
CommandsNeverEmpty(s) == FALSE
CommandsEmpty(s) == s.commands = "empty"

\* PerformBindFramebufferAsRenderTarget: <<curFBWidth_, curFBHeight_>>
BoundDims(fb) ==
    IF fb # NoFB THEN <<FBWidth(fb), FBHeight(fb)>>
    ELSE <<targetWidth_, targetHeight_>>

\* the prologue of PerformRenderPass
PassPrologue ==
    << Call("glEnable", <<"GL_SCISSOR_TEST">>),
       Call("glBindVertexArray", <<globalVAO_>>),
       Call("glBindBuffer", <<"GL_ARRAY_BUFFER", 0>>),
       Call("glBindBuffer", <<"GL_ELEMENT_ARRAY_BUFFER", 0>>) >>

\* VIEWPORT: the y handed to glViewport
ViewportY(c) ==
    FloatToGLint(IF curFramebuffer_ = NoFB
                 THEN 2 * curFBHeight_ - c.y2 - c.h2
                 ELSE c.y2)

\* SCISSOR: the y handed to glScissor
ScissorY(c) ==
    IF curFramebuffer_ = NoFB THEN curFBHeight_ - c.y - c.h ELSE c.y

\* BIND_INPUT_LAYOUT: enable = mask & ~attrMask, disable = ~mask & attrMask
LayoutEnableAll(mask, old) == mask
LayoutEnable(mask, old) == AndNot(mask, old)
LayoutDisableNone(mask, old) == 0
LayoutDisable(mask, old) == AndNot(old, mask)

\* the for (i < SEM_MAX) loop: calls in slot order
RECURSIVE AttribLoop(_, _, _)
AttribLoop(enable, disable, i) ==
    IF i = SEM_MAX THEN <<>>
    ELSE (IF Bit(enable, i) THEN <<Call("glEnableVertexAttribArray", <<i>>)>> ELSE <<>>)
         \o (IF Bit(disable, i) THEN <<Call("glDisableVertexAttribArray", <<i>>)>> ELSE <<>>)
         \o AttribLoop(enable, disable, i + 1)

\* the slots a call sequence enables / disables
SlotsOf(log, fn) == {c.args[1] : c \in Range(CallsTo(log, fn))}

\* DRAW_INDEXED: c.drawIndexed.instances == 1
DrawIndexedAnyInstances(c) == c.instances >= 1
DrawIndexedIssued(c) == c.instances = 1

\* the uniform call for a resolved location
UniformCalls(c, loc) ==
    IF loc < 0 THEN <<>>
    ELSE IF c.cmd = "UNIFORMMATRIX" THEN <<Call("glUniformMatrix4fv", <<loc>>)>>
    ELSE IF c.count \in 1..4
         THEN <<Call(IF c.cmd = "UNIFORM4F" THEN "glUniformf" ELSE "glUniformi",
                     <<loc, c.count>>)>>
         ELSE <<>>

\* ------------------------------------------------------------ RunSteps
notRenderVars == <<cfgVars, initVars, glObjVars, allocVars>>

RunSteps ==
    /\ pc = "idle"
    /\ HasContext
    /\ pc' = "steps"
    /\ stepIdx' = 0
    /\ deleted' = <<>>
    /\ step' = NoStep
    /\ cmd' = NoCmd
    /\ calls' = <<>>
    /\ UNCHANGED <<cmdIdx, memberVars, shadowVars, glPassVars, notRenderVars>>

\* i < steps.size(), for a list of at most MaxSteps steps
AtStep == pc = "steps" /\ stepIdx < MaxSteps

\* i++ with the delete left out
StepDoneWithoutDelete ==
    /\ deleted' = deleted
    /\ stepIdx' = stepIdx + 1

\* delete steps[i]; i++
StepDone ==
    /\ deleted' = Append(deleted, stepIdx)
    /\ stepIdx' = stepIdx + 1

RenderSteps ==
    {[stepType |-> "RENDER", framebuffer |-> fb, commands |-> e] :
        fb \in PassTargets, e \in {"empty", "nonempty"}}

\* PerformRenderPass on a step with no commands: return at once
PerformRenderPassEmpty ==
    /\ AtStep
    /\ \E s \in RenderSteps :
        /\ CommandsEmpty(s)
        /\ step' = s
    /\ StepDone
    /\ pc' = "steps"
    /\ cmd' = NoCmd
    /\ calls' = <<>>
    /\ UNCHANGED <<cmdIdx, memberVars, shadowVars, glPassVars, notRenderVars>>

\* PerformRenderPass up to the command loop
PerformRenderPassBegin ==
    /\ AtStep
    /\ \E s \in RenderSteps :
        /\ ~CommandsEmpty(s)
        /\ step' = s
        /\ curFBWidth_' = BoundDims(s.framebuffer)[1]
        /\ curFBHeight_' = BoundDims(s.framebuffer)[2]
    /\ calls' = PassPrologue
    /\ glScissorTest' = TRUE
    /\ glVertexArray' = globalVAO_
    /\ glArrayBuffer' = 0
    /\ glElementBuffer' = 0
    /\ curProgram' = 0
    /\ activeTexture' = GL_TEXTURE0
    /\ attrMask' = 0
    /\ pc' = "pass"
    /\ cmdIdx' = 0
    /\ cmd' = NoCmd
    /\ UNCHANGED <<stepIdx, deleted, targetWidth_, targetHeight_,
                   curFramebuffer_, glColorMask, glAttribEnabled, glActiveTex,
                   glProgram, notRenderVars>>

\* the loop over step.commands has a next command (at most MaxCmds of them)
InPass == pc = "pass" /\ cmdIdx < MaxCmds

\* what every command leaves alone, and the move to the next command
CmdFrame(c, log) ==
    /\ cmd' = c
    /\ cmdIdx' = cmdIdx + 1
    /\ calls' = log
    /\ UNCHANGED <<pc, stepIdx, step, deleted, memberVars, notRenderVars>>

\* commands that only issue calls the model keeps no device state for
StatelessCalls(c) ==
    CASE c.cmd = "DEPTH" ->
            IF c.enabled
            THEN <<Call("glEnable", <<"GL_DEPTH_TEST">>), Call("glDepthMask", <<>>),
                   Call("glDepthFunc", <<>>)>>
            ELSE <<Call("glDisable", <<"GL_DEPTH_TEST">>)>>
      [] c.cmd = "STENCILFUNC" ->
            IF c.enabled
            THEN <<Call("glEnable", <<"GL_STENCIL_TEST">>), Call("glStencilFunc", <<>>)>>
            ELSE <<Call("glDisable", <<"GL_STENCIL_TEST">>)>>
      [] c.cmd = "STENCILOP" ->
            <<Call("glStencilOp", <<>>), Call("glStencilMask", <<>>)>>
      [] c.cmd = "BLENDCOLOR" -> <<Call("glBlendColor", <<>>)>>
      [] c.cmd = "GENMIPS" -> <<Call("glGenerateMipmap", <<"GL_TEXTURE_2D">>)>>
      [] c.cmd = "DRAW" -> <<Call("glDrawArrays", <<>>)>>
      [] c.cmd = "TEXTURESAMPLER" ->
            <<Call("glTexParameteri", <<"GL_TEXTURE_WRAP_S">>),
              Call("glTexParameteri", <<"GL_TEXTURE_WRAP_T">>),
              Call("glTexParameteri", <<"GL_TEXTURE_MAG_FILTER">>),
              Call("glTexParameteri", <<"GL_TEXTURE_MIN_FILTER">>)>>
            \o (IF c.anisotropy # 0
                THEN <<Call("glTexParameterf", <<"GL_TEXTURE_MAX_ANISOTROPY_EXT">>)>>
                ELSE <<>>)
      [] c.cmd = "RASTER" ->
            (IF c.cullEnable
             THEN <<Call("glEnable", <<"GL_CULL_FACE">>), Call("glFrontFace", <<>>),
                    Call("glCullFace", <<>>)>>
             ELSE <<Call("glDisable", <<"GL_CULL_FACE">>)>>)
            \o (IF c.ditherEnable
                THEN <<Call("glEnable", <<"GL_DITHER">>)>>
                ELSE <<Call("glDisable", <<"GL_DITHER">>)>>)

\* DEPTH, BLENDCOLOR, STENCILFUNC, STENCILOP, GENMIPS, DRAW, TEXTURESAMPLER, RASTER
CmdStateless ==
    /\ InPass
    /\ \E c \in FlagCmds \cup PlainCmds \cup SamplerCmds \cup RasterCmds :
        CmdFrame(c, StatelessCalls(c))
    /\ UNCHANGED <<shadowVars, glPassVars>>

CmdBlend ==
    /\ InPass
    /\ \E c \in BlendCmds :
        /\ CmdFrame(c, (IF c.enabled
                        THEN <<Call("glEnable", <<"GL_BLEND">>),
                               Call("glBlendEquationSeparate", <<>>),
                               Call("glBlendFuncSeparate", <<>>)>>
                        ELSE <<Call("glDisable", <<"GL_BLEND">>)>>)
                       \o <<Call("glColorMask", <<c.mask>>)>>)
        /\ glColorMask' = c.mask
    /\ UNCHANGED <<shadowVars, glScissorTest, glAttribEnabled, glActiveTex,
                   glArrayBuffer, glElementBuffer, glVertexArray, glProgram>>

\* the clear issued with the scissor test left on
ClearKeepsScissor(c) ==
    <<Call("glColorMask", <<15>>)>>
    \o (IF "COLOR" \in c.clearMask THEN <<Call("glClearColor", <<>>)>> ELSE <<>>)
    \o <<Call("glClear", <<c.clearMask>>), Call("glEnable", <<"GL_SCISSOR_TEST">>)>>

ClearCalls(c) ==
    <<Call("glDisable", <<"GL_SCISSOR_TEST">>), Call("glColorMask", <<15>>)>>
    \o (IF "COLOR" \in c.clearMask THEN <<Call("glClearColor", <<>>)>> ELSE <<>>)
    \o (IF "DEPTH" \in c.clearMask
        THEN <<Call(IF build = "GL" THEN "glClearDepth" ELSE "glClearDepthf", <<>>)>>
        ELSE <<>>)
    \o (IF "STENCIL" \in c.clearMask THEN <<Call("glClearStencil", <<>>)>> ELSE <<>>)
    \o <<Call("glClear", <<c.clearMask>>), Call("glEnable", <<"GL_SCISSOR_TEST">>)>>

CmdClear ==
    /\ InPass
    /\ \E c \in ClearCmds : CmdFrame(c, ClearCalls(c))
    /\ glColorMask' = 15
    /\ glScissorTest' = TRUE
    /\ UNCHANGED <<shadowVars, glAttribEnabled, glActiveTex,
                   glArrayBuffer, glElementBuffer, glVertexArray, glProgram>>

CmdViewport ==
    /\ InPass
    /\ \E c \in ViewportCmds :
        CmdFrame(c, <<Call("glViewport", <<c.x, ViewportY(c), c.w, FloatToGLint(c.h2)>>),
                      Call("glDepthRange", <<>>)>>)
    /\ UNCHANGED <<shadowVars, glPassVars>>

CmdScissor ==
    /\ InPass
    /\ \E c \in ScissorCmds :
        CmdFrame(c, <<Call("glScissor", <<c.x, ScissorY(c), c.w, c.h>>)>>)
    /\ UNCHANGED <<shadowVars, glPassVars>>

\* Crash(), or a null pointer dereference that ends the process
Crashes(c) ==
    /\ pc' = "crashed"
    /\ cmd' = c
    /\ calls' = <<>>
    /\ UNCHANGED <<stepIdx, step, deleted, cmdIdx, memberVars,
                   shadowVars, glPassVars, notRenderVars>>

\* UNIFORM4F, UNIFORM4I, UNIFORMMATRIX.  curProgram->GetUniformLoc(name) looks the
\* name up in the bound program; with curProgram == nullptr the call is undefined:
\* the process dies or goes on with whatever location comes out.
CmdUniform ==
    /\ InPass
    /\ \E c \in UniformCmds :
        \/ /\ c.name = NoName
           /\ CmdFrame(c, UniformCalls(c, IF c.loc # NullLoc THEN c.loc ELSE -1))
           /\ UNCHANGED <<shadowVars, glPassVars>>
        \/ /\ c.name # NoName
           /\ curProgram # 0
           /\ \E loc \in UniformLocs : CmdFrame(c, UniformCalls(c, loc))
           /\ UNCHANGED <<shadowVars, glPassVars>>
        \/ /\ c.name # NoName
           /\ curProgram = 0
           /\ \E loc \in UniformLocs : CmdFrame(c, UniformCalls(c, loc))
           /\ UNCHANGED <<shadowVars, glPassVars>>
        \/ /\ c.name # NoName
           /\ curProgram = 0
           /\ Crashes(c)

CmdBindTexture ==
    /\ InPass
    /\ \E c \in BindTextureCmds :
        /\ CmdFrame(c,
              (IF c.slot # activeTexture
               THEN <<Call("glActiveTexture", <<GL_TEXTURE0 + c.slot>>)>>
               ELSE <<>>)
              \o <<Call("glBindTexture", <<"GL_TEXTURE_2D", c.texture>>)>>)
        /\ activeTexture' = c.slot
        /\ glActiveTex' = IF c.slot # activeTexture THEN c.slot ELSE glActiveTex
    /\ UNCHANGED <<curProgram, attrMask, glScissorTest, glColorMask, glAttribEnabled,
                   glArrayBuffer, glElementBuffer, glVertexArray, glProgram>>

CmdBindProgram ==
    /\ InPass
    /\ \E p \in RenderPrograms :
        /\ CmdFrame([cmd |-> "BINDPROGRAM", program |-> p], <<Call("glUseProgram", <<p>>)>>)
        /\ curProgram' = p
        /\ glProgram' = p
    /\ UNCHANGED <<activeTexture, attrMask, glScissorTest, glColorMask, glAttribEnabled,
                   glActiveTex, glArrayBuffer, glElementBuffer, glVertexArray>>

\* glVertexAttribPointer for every entry of the layout (one entry per mask bit)
RECURSIVE AttribPointers(_, _)
AttribPointers(mask, i) ==
    IF i = MaskBits THEN <<>>
    ELSE (IF Bit(mask, i) THEN <<Call("glVertexAttribPointer", <<i>>)>> ELSE <<>>)
         \o AttribPointers(mask, i + 1)

InputLayoutCalls(c) ==
    AttribLoop(LayoutEnable(c.semanticsMask_, attrMask),
               LayoutDisable(c.semanticsMask_, attrMask), 0)

CmdBindInputLayout ==
    /\ InPass
    /\ \E c \in BindInputLayoutCmds :
        /\ CmdFrame(c, InputLayoutCalls(c) \o AttribPointers(c.semanticsMask_, 0))
        /\ attrMask' = c.semanticsMask_
        /\ glAttribEnabled' =
              (glAttribEnabled \cup SlotsOf(InputLayoutCalls(c), "glEnableVertexAttribArray"))
              \ SlotsOf(InputLayoutCalls(c), "glDisableVertexAttribArray")
    /\ UNCHANGED <<curProgram, activeTexture, glScissorTest, glColorMask, glActiveTex,
                   glArrayBuffer, glElementBuffer, glVertexArray, glProgram>>

CmdBindVertexBuffer ==
    /\ InPass
    /\ \E c \in {b \in BindBufferCmds : b.cmd = "BIND_VERTEX_BUFFER"} :
        /\ CmdFrame(c, <<Call("glBindBuffer", <<"GL_ARRAY_BUFFER", c.buffer>>)>>)
        /\ glArrayBuffer' = c.buffer
    /\ UNCHANGED <<shadowVars, glScissorTest, glColorMask, glAttribEnabled, glActiveTex,
                   glElementBuffer, glVertexArray, glProgram>>

CmdBindIndexBuffer ==
    /\ InPass
    /\ \E c \in {b \in BindBufferCmds : b.cmd = "BIND_INDEX_BUFFER"} :
        /\ CmdFrame(c, <<Call("glBindBuffer", <<"GL_ELEMENT_ARRAY_BUFFER", c.buffer>>)>>)
        /\ glElementBuffer' = c.buffer
    /\ UNCHANGED <<shadowVars, glScissorTest, glColorMask, glAttribEnabled, glActiveTex,
                   glArrayBuffer, glVertexArray, glProgram>>

CmdDrawIndexed ==
    /\ InPass
    /\ \E c \in DrawIndexedCmds :
        CmdFrame(c, IF DrawIndexedIssued(c) THEN <<Call("glDrawElements", <<>>)>> ELSE <<>>)
    /\ UNCHANGED <<shadowVars, glPassVars>>

\* default: Crash()
CmdUnknown ==
    /\ InPass
    /\ Crashes([cmd |-> "UNKNOWN"])

\* the epilogue of PerformRenderPass, then delete steps[i]
\* the epilogue with the loop over attrMask left out
PassEpilogueKeepsAttribs ==
    (IF activeTexture # GL_TEXTURE0
        THEN <<Call("glActiveTexture", <<GL_TEXTURE0>>)>>
        ELSE <<>>)
    \o << Call("glBindBuffer", <<"GL_ARRAY_BUFFER", 0>>),
          Call("glBindBuffer", <<"GL_ELEMENT_ARRAY_BUFFER", 0>>),
          Call("glBindVertexArray", <<0>>),
          Call("glDisable", <<"GL_SCISSOR_TEST">>) >>

PassEpilogue ==
    AttribLoop(0, attrMask, 0)
    \o (IF activeTexture # GL_TEXTURE0
        THEN <<Call("glActiveTexture", <<GL_TEXTURE0>>)>>
        ELSE <<>>)
    \o << Call("glBindBuffer", <<"GL_ARRAY_BUFFER", 0>>),
          Call("glBindBuffer", <<"GL_ELEMENT_ARRAY_BUFFER", 0>>),
          Call("glBindVertexArray", <<0>>),
          Call("glDisable", <<"GL_SCISSOR_TEST">>) >>

PerformRenderPassEnd ==
    /\ pc = "pass"
    /\ cmdIdx >= 1
    /\ calls' = PassEpilogue
    /\ glAttribEnabled' = glAttribEnabled \ SlotsOf(PassEpilogue, "glDisableVertexAttribArray")
    /\ glActiveTex' = IF activeTexture # GL_TEXTURE0 THEN 0 ELSE glActiveTex
    /\ glArrayBuffer' = 0
    /\ glElementBuffer' = 0
    /\ glVertexArray' = 0
    /\ glScissorTest' = FALSE
    \* the pass's locals end with the call
    /\ curProgram' = 0
    /\ activeTexture' = GL_TEXTURE0
    /\ attrMask' = 0
    /\ StepDone
    /\ pc' = "steps"
    /\ cmd' = NoCmd
    /\ UNCHANGED <<step, cmdIdx, memberVars, glColorMask, glProgram,
                   notRenderVars>>

\* ---------------------------------------------------------- PerformCopy
CopySteps ==
    {[stepType |-> "COPY", src |-> s, dst |-> d, aspectMask |-> a] :
        s \in Framebuffers, d \in Framebuffers, a \in {"COLOR", "DEPTH", "STENCIL"}}

\* <<srcTex, dstTex, target>> as the switch on aspectMask leaves them
CopyHandles(s) ==
    LET src == s.src
        dst == s.src
    IN  CASE s.aspectMask = "COLOR" ->
                <<FBColorTex(src), FBColorTex(dst), "GL_TEXTURE_2D">>
          [] s.aspectMask = "DEPTH" ->
                <<FBDepthTex(src), FBDepthTex(src), "GL_RENDERBUFFER">>
          [] OTHER -> <<0, 0, "GL_TEXTURE_2D">>

CopyCalls(s) ==
    CASE build = "GLES" -> <<Call("glCopyImageSubDataOES", CopyHandles(s))>>
      [] build = "IOS" -> <<>>
      [] build = "GL" ->
            IF gl_extensions.ARB_copy_image
            THEN <<Call("glCopyImageSubData", CopyHandles(s))>>
            ELSE IF gl_extensions.NV_copy_image
            THEN <<Call("glCopyImageSubDataNV", CopyHandles(s))>>
            ELSE <<>>

\* a step that runs in one go: its calls, then delete steps[i]
WholeStep(s, log) ==
    /\ step' = s
    /\ calls' = log
    /\ StepDone
    /\ pc' = "steps"
    /\ cmd' = NoCmd
    /\ UNCHANGED <<cmdIdx, memberVars, shadowVars, glPassVars, notRenderVars>>

PerformCopy ==
    /\ AtStep
    /\ \E s \in CopySteps : WholeStep(s, CopyCalls(s))

\* PerformBlit, PerformReadback, PerformReadbackImage: empty bodies
PerformStub ==
    /\ AtStep
    /\ \E k \in {"BLIT", "READBACK", "READBACK_IMAGE"} :
        WholeStep([stepType |-> k], <<>>)

\* default: Crash()
StepUnknown ==
    /\ AtStep
    /\ pc' = "crashed"
    /\ step' = [stepType |-> "UNKNOWN"]
    /\ calls' = <<>>
    /\ UNCHANGED <<stepIdx, deleted, cmdIdx, cmd, memberVars, shadowVars,
                   glPassVars, notRenderVars>>

RunStepsReturn ==
    /\ pc = "steps"
    /\ pc' = "idle"
    /\ calls' = <<>>
    /\ UNCHANGED <<stepVars, memberVars, shadowVars, glPassVars, notRenderVars>>

NextRender ==
    \/ RunSteps \/ RunStepsReturn
    \/ PerformRenderPassEmpty \/ PerformRenderPassBegin \/ PerformRenderPassEnd
    \/ PerformCopy \/ PerformStub \/ StepUnknown
    \/ CmdStateless \/ CmdBlend \/ CmdClear \/ CmdViewport \/ CmdScissor
    \/ CmdUniform \/ CmdBindTexture \/ CmdBindProgram \/ CmdBindInputLayout
    \/ CmdBindVertexBuffer \/ CmdBindIndexBuffer \/ CmdDrawIndexed \/ CmdUnknown

\* --------------------------------------------------------- the GL device
\* glGen* / glCreate*: a name not in use (the lowest one)
RECURSIVE LowestFree(_, _)
LowestFree(used, n) == IF n \notin used THEN n ELSE LowestFree(used, n + 1)
GenName(used) == LowestFree(used, 1)

\* glGenTextures(n, ...): n names not in use, in the order they are written
RECURSIVE GenNames(_, _)
GenNames(used, n) ==
    IF n = 0 THEN <<>>
    ELSE <<GenName(used)>> \o GenNames(used \cup {GenName(used)}, n - 1)

\* --------------------------------------------------- AllocTextureName
\* nameCache_.empty()
CacheLow(cache) == Len(cache) <= 1
CacheEmpty(cache) == cache = <<>>

\* the cache after the refill, if one is due
Refilled(cache) ==
    IF CacheEmpty(cache) THEN GenNames(glTexNames, TEXCACHE_NAME_CACHE_SIZE) ELSE cache

notAllocVars == <<cfgVars, memberVars, stepVars, shadowVars, glPassVars, initVars,
                  glObjVars>>

AllocTextureName ==
    /\ pc = "idle"
    /\ HasContext
    /\ allocs < MaxAllocs
    /\ LET cache == Refilled(nameCache_)
           name == cache[Len(cache)]
       IN  /\ nameCache_' = SubSeq(cache, 1, Len(cache) - 1)
           /\ returned' = Append(returned, name)
           /\ glTexNames' = glTexNames \cup Range(cache)
           /\ refills' = IF CacheEmpty(nameCache_) THEN refills + 1 ELSE refills
           /\ calls' = IF CacheEmpty(nameCache_)
                       THEN <<Call("glGenTextures", <<TEXCACHE_NAME_CACHE_SIZE, cache>>)>>
                       ELSE <<>>
    /\ allocs' = allocs + 1
    /\ UNCHANGED <<pc, globalVAO_, glVAOs, contexts, dropped, notAllocVars>>

CreateDeviceObjects ==
    /\ pc = "idle"
    /\ ~HasContext
    /\ contexts < MaxContexts
    /\ contexts' = contexts + 1
    /\ globalVAO_' = GenName(glVAOs)
    /\ glVAOs' = glVAOs \cup {GenName(glVAOs)}
    /\ calls' = <<Call("glGetFloatv", <<"GL_MAX_TEXTURE_MAX_ANISOTROPY_EXT">>),
                  Call("glGenVertexArrays", <<1, GenName(glVAOs)>>)>>
    /\ UNCHANGED <<pc, nameCache_, allocs, refills, returned, dropped, glTexNames,
                   notAllocVars>>

DestroyDeviceObjects ==
    /\ pc = "idle"
    /\ HasContext
    /\ calls' = (IF nameCache_ # <<>>
                 THEN <<Call("glDeleteTextures", <<Len(nameCache_), nameCache_>>)>>
                 ELSE <<>>)
                \o <<Call("glDeleteVertexArrays", <<1, globalVAO_>>)>>
    /\ nameCache_' = <<>>
    /\ dropped' = dropped + Len(nameCache_)
    /\ glTexNames' = glTexNames \ Range(nameCache_)
    /\ glVAOs' = glVAOs \ {globalVAO_}
    /\ UNCHANGED <<pc, globalVAO_, contexts, allocs, refills, returned, notAllocVars>>

NextAlloc == AllocTextureName \/ CreateDeviceObjects \/ DestroyDeviceObjects

\* ------------------------------------------------------------ init input
TexIds == {1, 2}
BufIds == {1}
ShaderIds == {1, 2}
ProgIds == {1, 2}
ShaderLists == {<<1>>, <<1, 2>>}   \* step.create_program.shaders
NoInitStep == [stepType |-> "NONE"]

\* ------------------------------------------------------ RunInitSteps parts

\* BUFFER_SUBDATA
SubDataFreesFirst(s) ==
    << Call("glBindBuffer", <<"GL_ARRAY_BUFFER", buffers[s.buffer].buffer>>) >>
    \o (IF s.deleteData THEN <<Call("delete[]", <<"data">>)>> ELSE <<>>)
    \o << Call("glBufferSubData", <<"GL_ARRAY_BUFFER", "data">>) >>
BufferSubDataCalls(s) ==
    << Call("glBindBuffer", <<"GL_ARRAY_BUFFER", buffers[s.buffer].buffer>>),
       Call("glBufferSubData", <<"GL_ARRAY_BUFFER", "data">>) >>
    \o (IF s.deleteData THEN <<Call("delete[]", <<"data">>)>> ELSE <<>>)

\* CREATE_PROGRAM: the fragment outputs bound before glLinkProgram
FragOutputsByFeatureFlag(s, p) ==
    IF s.support_dual_source /\ featureFlags
    THEN << Call("glBindFragDataLocationIndexed", <<p, 0, 0, "fragColor0">>),
            Call("glBindFragDataLocationIndexed", <<p, 0, 1, "fragColor1">>) >>
    ELSE IF gl_extensions.ver33
    THEN << Call("glBindFragDataLocation", <<p, 0, "fragColor0">>) >>
    ELSE <<>>
FragOutputCalls(s, p) ==
    CASE build = "GL" ->
            IF s.support_dual_source
            THEN << Call("glBindFragDataLocationIndexed", <<p, 0, 0, "fragColor0">>),
                    Call("glBindFragDataLocationIndexed", <<p, 0, 1, "fragColor1">>) >>
            ELSE IF gl_extensions.ver33
            THEN << Call("glBindFragDataLocation", <<p, 0, "fragColor0">>) >>
            ELSE <<>>
      [] build = "GLES" ->
            IF gl_extensions.GLES3 /\ featureFlags
            THEN << Call("glBindFragDataLocationIndexedEXT", <<p, 0, 0, "fragColor0">>),
                    Call("glBindFragDataLocationIndexedEXT", <<p, 0, 1, "fragColor1">>) >>
            ELSE <<>>
      [] build = "IOS" -> <<>>

\* glAttachShader for every shader of the step, in order
AttachCalls(s, p) ==
    [k \in 1..Len(s.shaders) |->
        Call("glAttachShader", <<p, shaders[s.shaders[k]].shader>>)]

\* CREATE_PROGRAM after glGetProgramiv(GL_LINK_STATUS): linkOk is the status read,
\* hasLog whether the info log is non-empty, loc what the uniform query resolves to
AfterLinkCalls(p, linkOk, hasLog, loc) ==
    IF ~linkOk
    THEN <<Call("glGetProgramiv", <<p, "GL_INFO_LOG_LENGTH">>)>>
         \o (IF hasLog THEN <<Call("glGetProgramInfoLog", <<p>>)>> ELSE <<>>)
    ELSE << Call("glUseProgram", <<p>>),
            Call("glGetUniformLocation", <<p, "u_tex">>) >>
         \o (IF loc # -1 THEN <<Call("glUniform1i", <<loc, 0>>)>> ELSE <<>>)

CreateProgramCalls(s, p, linkOk, hasLog, loc) ==
    <<Call("glCreateProgram", <<p>>)>>
    \o AttachCalls(s, p)
    \o <<Call("glBindAttribLocation", <<p, 0, "a_position">>)>>
    \o FragOutputCalls(s, p)
    \o << Call("glLinkProgram", <<p>>), Call("glGetProgramiv", <<p, "GL_LINK_STATUS">>) >>
    \o AfterLinkCalls(p, linkOk, hasLog, loc)

\* CREATE_SHADER: success is the compile status read back
\* the source text released only on the path of a successful compile
ShaderSourceKeptOnFailure(h, success) ==
    << Call("glCreateShader", <<h>>),
       Call("glShaderSource", <<h, "code">>) >>
    \o (IF success THEN <<Call("delete[]", <<"code">>)>> ELSE <<>>)
    \o << Call("glCompileShader", <<h>>),
          Call("glGetShaderiv", <<h, "GL_COMPILE_STATUS">>) >>
    \o (IF ~success
        THEN <<Call("glGetShaderInfoLog", <<h>>), Call("glDeleteShader", <<h>>)>>
        ELSE <<>>)

CreateShaderCalls(h, success) ==
    << Call("glCreateShader", <<h>>),
       Call("glShaderSource", <<h, "code">>),
       Call("delete[]", <<"code">>),
       Call("glCompileShader", <<h>>),
       Call("glGetShaderiv", <<h, "GL_COMPILE_STATUS">>) >>
    \o (IF ~success
        THEN <<Call("glGetShaderInfoLog", <<h>>), Call("glDeleteShader", <<h>>)>>
        ELSE <<>>)

\* shader->valid as the case leaves it: false is stored on failure, then true is
\* stored whatever the outcome
ShaderValidAfter(success) == TRUE

\* TEXTURE_IMAGE: glTexImage2D acts on the texture bound to tex->target
TextureImageCalls(s) ==
    << Call("glTexImage2D", <<"GL_TEXTURE_2D", "data">>),
       Call("delete[]", <<"data">>),
       Call("glTexParameteri", <<"GL_TEXTURE_WRAP_S", "GL_CLAMP_TO_EDGE">>),
       Call("glTexParameteri", <<"GL_TEXTURE_WRAP_T", "GL_CLAMP_TO_EDGE">>),
       Call("glTexParameteri",
            <<"GL_TEXTURE_MAG_FILTER", IF s.linearFilter THEN "GL_LINEAR" ELSE "GL_NEAREST">>),
       Call("glTexParameteri",
            <<"GL_TEXTURE_MIN_FILTER", IF s.linearFilter THEN "GL_LINEAR" ELSE "GL_NEAREST">>) >>

\* ------------------------------------------------------- RunInitSteps
notInitVars == <<cfgVars, memberVars, stepVars, shadowVars, nameCache_, globalVAO_,
                 glVAOs, allocs, refills, returned, dropped, contexts>>

RunInitSteps ==
    /\ pc = "idle"
    /\ HasContext
    /\ pc' = "init"
    /\ initIdx' = 0
    /\ executed' = <<>>
    /\ initStep' = NoInitStep
    /\ calls' = <<>>
    /\ UNCHANGED <<initTotal, textures, buffers, shaders, programs, compiled, linked,
                   glObjVars, glTexNames, glPassVars, notInitVars>>

\* i < steps.size(), for lists of at most MaxInitSteps steps in all
AtInit == pc = "init" /\ initTotal < MaxInitSteps

\* the step has run: on to steps[i + 1]
InitFrame(s, log) ==
    /\ initStep' = s
    /\ calls' = log
    /\ executed' = Append(executed, initIdx)
    /\ initIdx' = initIdx + 1
    /\ initTotal' = initTotal + 1
    /\ UNCHANGED <<pc, notInitVars>>

glPassButArrayAndProgram ==
    <<glScissorTest, glColorMask, glAttribEnabled, glActiveTex, glElementBuffer,
      glVertexArray>>

InitCreateTexture ==
    /\ AtInit
    /\ \E t \in TexIds :
        /\ textures[t].texture = 0
        /\ LET name == GenName(glTexNames)
           IN  /\ InitFrame([stepType |-> "CREATE_TEXTURE", texture |-> t],
                            << Call("glGenTextures", <<1, name>>),
                               Call("glBindTexture", <<textures[t].target, name>>) >>)
               /\ textures' = [textures EXCEPT ![t].texture = name]
               /\ glTexNames' = glTexNames \cup {name}
               /\ glBoundTexture' = name
    /\ UNCHANGED <<buffers, shaders, programs, compiled, linked, glBufNames, glObjects,
                   glDeletedShaders, glTexImages, glPassVars>>

InitCreateBuffer ==
    /\ AtInit
    /\ \E b \in BufIds :
        /\ buffers[b].buffer = 0
        /\ LET name == GenName(glBufNames)
           IN  /\ InitFrame([stepType |-> "CREATE_BUFFER", buffer |-> b],
                            << Call("glGenBuffers", <<1, name>>),
                               Call("glBindBuffer", <<buffers[b].target_, name>>),
                               Call("glBufferData", <<buffers[b].target_>>) >>)
               /\ buffers' = [buffers EXCEPT ![b].buffer = name]
               /\ glBufNames' = glBufNames \cup {name}
               /\ glArrayBuffer' = name
    /\ UNCHANGED <<textures, shaders, programs, compiled, linked, glTexNames, glObjects,
                   glDeletedShaders, glBoundTexture, glTexImages, glProgram,
                   glPassButArrayAndProgram>>

InitBufferSubData ==
    /\ AtInit
    /\ \E b \in BufIds, del \in BOOLEAN :
        /\ buffers[b].buffer # 0
        /\ LET s == [stepType |-> "BUFFER_SUBDATA", buffer |-> b, deleteData |-> del]
           IN  InitFrame(s, BufferSubDataCalls(s))
        /\ glArrayBuffer' = buffers[b].buffer
    /\ UNCHANGED <<textures, buffers, shaders, programs, compiled, linked, glObjVars,
                   glTexNames, glProgram, glPassButArrayAndProgram>>

InitCreateProgram ==
    /\ AtInit
    /\ \E p \in ProgIds, sh \in ShaderLists, dual \in BOOLEAN,
          linkOk \in BOOLEAN, hasLog \in BOOLEAN, loc \in UniformLocs :
        /\ programs[p].program = 0
        /\ \A k \in 1..Len(sh) : shaders[sh[k]].shader # 0
        \* the answers that are not read leave no trace
        /\ linkOk => ~hasLog
        /\ ~linkOk => loc = -1
        /\ LET name == GenName(glObjects)
               s == [stepType |-> "CREATE_PROGRAM", program |-> p, shaders |-> sh,
                     support_dual_source |-> dual]
           IN  /\ InitFrame(s, CreateProgramCalls(s, name, linkOk, hasLog, loc))
               /\ programs' = [programs EXCEPT
                                 ![p].program = name,
                                 ![p].loc = IF linkOk THEN loc ELSE @]
               /\ linked' = [linked EXCEPT ![p] = IF linkOk THEN "ok" ELSE "failed"]
               /\ glObjects' = glObjects \cup {name}
               /\ glDeletedShaders' = glDeletedShaders \ {name}
               /\ glProgram' = IF linkOk THEN name ELSE glProgram
    /\ UNCHANGED <<textures, buffers, shaders, compiled, glTexNames, glBufNames,
                   glBoundTexture, glTexImages, glArrayBuffer, glPassButArrayAndProgram>>

InitCreateShader ==
    /\ AtInit
    /\ \E sid \in ShaderIds, success \in BOOLEAN :
        /\ shaders[sid].shader = 0
        /\ LET h == GenName(glObjects)
           IN  /\ InitFrame([stepType |-> "CREATE_SHADER", shader |-> sid],
                            CreateShaderCalls(h, success))
               /\ shaders' = [shaders EXCEPT ![sid] =
                                 [shader |-> h, valid |-> ShaderValidAfter(success)]]
               /\ compiled' = [compiled EXCEPT ![sid] = IF success THEN "ok" ELSE "failed"]
               /\ glObjects' = IF success THEN glObjects \cup {h} ELSE glObjects
               /\ glDeletedShaders' = IF success THEN glDeletedShaders \ {h}
                                      ELSE glDeletedShaders \cup {h}
    /\ UNCHANGED <<textures, buffers, programs, linked, glTexNames, glBufNames,
                   glBoundTexture, glTexImages, glPassVars>>

\* CREATE_INPUT_LAYOUT, CREATE_FRAMEBUFFER, TEXTURE_SUBDATA: nothing is done
InitNothing ==
    /\ AtInit
    /\ \E k \in {"CREATE_INPUT_LAYOUT", "CREATE_FRAMEBUFFER", "TEXTURE_SUBDATA"} :
        InitFrame([stepType |-> k], <<>>)
    /\ UNCHANGED <<textures, buffers, shaders, programs, compiled, linked, glObjVars,
                   glTexNames, glPassVars>>

InitTextureImage ==
    /\ AtInit
    /\ \E t \in TexIds, lin \in BOOLEAN :
        /\ textures[t].texture # 0
        /\ LET s == [stepType |-> "TEXTURE_IMAGE", texture |-> t, linearFilter |-> lin]
           IN  InitFrame(s, TextureImageCalls(s))
    /\ glTexImages' = glTexImages \cup {glBoundTexture}
    /\ UNCHANGED <<textures, buffers, shaders, programs, compiled, linked, glTexNames,
                   glBufNames, glObjects, glDeletedShaders, glBoundTexture, glPassVars>>

\* default: Crash()
InitUnknown ==
    /\ AtInit
    /\ pc' = "crashed"
    /\ initStep' = [stepType |-> "UNKNOWN"]
    /\ calls' = <<>>
    /\ UNCHANGED <<initIdx, initTotal, executed, textures, buffers, shaders,
                   programs, compiled, linked, glObjVars, glTexNames, glPassVars,
                   notInitVars>>

RunInitStepsReturn ==
    /\ pc = "init"
    /\ pc' = "idle"
    /\ calls' = <<>>
    /\ UNCHANGED <<initVars, glObjVars, glTexNames, glPassVars, notInitVars>>

NextInit ==
    \/ RunInitSteps \/ RunInitStepsReturn
    \/ InitCreateTexture \/ InitCreateBuffer \/ InitBufferSubData
    \/ InitCreateProgram \/ InitCreateShader \/ InitNothing
    \/ InitTextureImage \/ InitUnknown

\* ------------------------------------------------------- initial states
Ext(gles3, ver33, arb, nv) ==
    [GLES3 |-> gles3, ver33 |-> ver33, ARB_copy_image |-> arb, NV_copy_image |-> nv]

\* the build / device configurations RunSteps is run under
RenderConfigs ==
    {[build |-> "GL", ext |-> Ext(FALSE, TRUE, arb, TRUE), ff |-> FALSE] :
        arb \in BOOLEAN}
    \cup {[build |-> b, ext |-> Ext(TRUE, FALSE, FALSE, FALSE), ff |-> FALSE] :
        b \in {"GLES", "IOS"}}

\* the build / device configurations CREATE_PROGRAM tells apart
ProgramConfigs ==
    {[build |-> "GL", ext |-> Ext(FALSE, v, FALSE, FALSE), ff |-> f] :
        v \in BOOLEAN, f \in BOOLEAN}
    \cup {[build |-> "GLES", ext |-> Ext(g, FALSE, FALSE, FALSE), ff |-> f] :
        g \in BOOLEAN, f \in BOOLEAN}
    \cup {[build |-> "IOS", ext |-> Ext(TRUE, FALSE, FALSE, FALSE), ff |-> FALSE]}

\* the members and the device as the constructor leaves them
Constructed ==
    /\ pc = "idle"
    /\ calls = <<>>
    /\ targetWidth_ \in TargetWidths
    /\ targetHeight_ \in TargetHeights
    /\ curFBWidth_ = 0
    /\ curFBHeight_ = 0
    /\ curFramebuffer_ = NoFB
    /\ nameCache_ = <<>>
    /\ stepIdx = 0 /\ step = NoStep /\ deleted = <<>>
    /\ cmdIdx = 0 /\ cmd = NoCmd
    /\ curProgram = 0 /\ activeTexture = GL_TEXTURE0 /\ attrMask = 0
    /\ glScissorTest = FALSE /\ glColorMask = 15 /\ glAttribEnabled = {}
    /\ glActiveTex = 0 /\ glArrayBuffer = 0 /\ glElementBuffer = 0
    /\ glVertexArray = 0 /\ glProgram = 0
    /\ initIdx = 0 /\ initStep = NoInitStep /\ executed = <<>>
    /\ initTotal = 0
    /\ textures = [t \in TexIds |-> [texture |-> 0, target |-> "GL_TEXTURE_2D"]]
    /\ buffers = [b \in BufIds |-> [buffer |-> 0, target_ |-> "GL_ARRAY_BUFFER"]]
    /\ shaders = [s \in ShaderIds |-> [shader |-> 0, valid |-> FALSE]]
    /\ programs = [p \in ProgIds |-> [program |-> 0, loc |-> -1]]
    /\ compiled = [s \in ShaderIds |-> "none"]
    /\ linked = [p \in ProgIds |-> "none"]
    /\ glTexNames = {} /\ glBufNames = {} /\ glObjects = {} /\ glDeletedShaders = {}
    /\ glBoundTexture = 0 /\ glTexImages = {}
    /\ allocs = 0 /\ refills = 0 /\ returned = <<>> /\ dropped = 0

Configured(configs) ==
    \E c \in configs :
        /\ build = c.build
        /\ gl_extensions = c.ext
        /\ featureFlags = c.ff

\* right after construction
InitAlloc ==
    /\ Constructed
    /\ Configured({[build |-> "GL", ext |-> Ext(FALSE, TRUE, TRUE, FALSE), ff |-> FALSE]})
    /\ globalVAO_ = 0 /\ glVAOs = {} /\ contexts = 0

\* after the first CreateDeviceObjects
InitRender ==
    /\ Constructed
    /\ Configured(RenderConfigs)
    /\ globalVAO_ = 1 /\ glVAOs = {1} /\ contexts = 1

InitInit ==
    /\ Constructed
    /\ Configured(ProgramConfigs)
    /\ globalVAO_ = 1 /\ glVAOs = {1} /\ contexts = 1

\* ============================================================== claims
Count(log, fn) == Len(CallsTo(log, fn))
Positions(log, fn) == {k \in 1..Len(log) : log[k].fn = fn}
Bits(mask) == {i \in 0..(MaskBits - 1) : Bit(mask, i)}
JustRan(kind) == pc = "pass" /\ cmd.cmd = kind
JustRanInit(kind) == pc = "init" /\ initStep.stepType = kind

\* C1 (as claimed): every VIEWPORT and SCISSOR command hands the device
\* targetHeight - y - height when the pass has no framebuffer, and the unmodified y
\* when the pass targets an offscreen framebuffer, whatever the earlier passes were.
C1_FlipOnlyOnscreen ==
    /\ JustRan("VIEWPORT") =>
          \A c \in Range(CallsTo(calls, "glViewport")) :
              c.args[2] = FloatToGLint(IF step.framebuffer = NoFB
                                       THEN 2 * targetHeight_ - cmd.y2 - cmd.h2
                                       ELSE cmd.y2)
    /\ JustRan("SCISSOR") =>
          \A c \in Range(CallsTo(calls, "glScissor")) :
              c.args[2] = IF step.framebuffer = NoFB
                          THEN targetHeight_ - cmd.y - cmd.h
                          ELSE cmd.y

\* C2 (as claimed): after a CREATE_SHADER step the record's valid flag is false if
\* the compile failed and true if it succeeded.
C2_ValidTellsCompileResult ==
    \A sid \in ShaderIds :
        /\ compiled[sid] = "failed" => ~shaders[sid].valid
        /\ compiled[sid] = "ok" => shaders[sid].valid

\* C3 (as claimed): a failure at step k does not stop the batch, the steps run in
\* list order, and the records left invalid are exactly those whose step failed.
C3_FailureStaysLocal ==
    /\ executed = [k \in 1..initIdx |-> k - 1]
    /\ {sid \in ShaderIds : shaders[sid].shader # 0 /\ ~shaders[sid].valid}
          = {sid \in ShaderIds : compiled[sid] = "failed"}

\* what a program record holds besides the value of its handle
ProgramMarks(p) == [created |-> programs[p].program # 0, loc |-> programs[p].loc]

\* C4 (as claimed): a program whose link failed is marked unusable, that is its
\* record differs from the record of a program that linked, and the interpreter
\* goes on to the next step.
C4_FailedLinkIsMarked ==
    /\ \A p \in ProgIds, q \in ProgIds :
          linked[p] = "failed" /\ linked[q] = "ok" => ProgramMarks(p) # ProgramMarks(q)
    /\ initStep.stepType = "CREATE_PROGRAM" => pc \in {"init", "idle"}

IndexedOutputs ==
    Count(calls, "glBindFragDataLocationIndexed")
    + Count(calls, "glBindFragDataLocationIndexedEXT")
NamedOutputs == Count(calls, "glBindFragDataLocation")
OutputsBeforeLink ==
    \A k \in Positions(calls, "glBindFragDataLocationIndexed")
             \cup Positions(calls, "glBindFragDataLocationIndexedEXT")
             \cup Positions(calls, "glBindFragDataLocation") :
        \A l \in Positions(calls, "glLinkProgram") : k < l

\* C5 (as claimed): dual-source requested and the device capability flag on: two
\* indexed outputs; flag off and version high enough: one named output; both off:
\* none.
C5_OutputsFollowDeviceFlag ==
    JustRanInit("CREATE_PROGRAM") =>
        /\ initStep.support_dual_source /\ featureFlags =>
              IndexedOutputs = 2 /\ NamedOutputs = 0
        /\ ~featureFlags /\ gl_extensions.ver33 =>
              IndexedOutputs = 0 /\ NamedOutputs = 1
        /\ ~featureFlags /\ ~gl_extensions.ver33 =>
              IndexedOutputs = 0 /\ NamedOutputs = 0

\* C5 (amended): before linking, a desktop GL build binds two indexed outputs iff
\* the step requests dual source (the device flag is not read), else one named
\* output iff the GL version is at least 3.3, else none; a GLES build binds two
\* indexed outputs iff the device is GLES3 and its dual-source flag is on when the
\* step runs (the request is not read), else none; an iOS build binds none.
C5_OutputsPerBuild ==
    JustRanInit("CREATE_PROGRAM") =>
        /\ OutputsBeforeLink
        /\ build = "GL" =>
              /\ IndexedOutputs = (IF initStep.support_dual_source THEN 2 ELSE 0)
              /\ NamedOutputs =
                    (IF ~initStep.support_dual_source /\ gl_extensions.ver33 THEN 1 ELSE 0)
        /\ build = "GLES" =>
              /\ IndexedOutputs = (IF gl_extensions.GLES3 /\ featureFlags THEN 2 ELSE 0)
              /\ NamedOutputs = 0
        /\ build = "IOS" => IndexedOutputs = 0 /\ NamedOutputs = 0

C5_Witness ==
    /\ JustRanInit("CREATE_PROGRAM")
    /\ build = "GL" /\ initStep.support_dual_source /\ ~featureFlags
    /\ gl_extensions.ver33
    /\ IndexedOutputs = 2
    /\ Count(calls, "glLinkProgram") = 1

\* C6: a render pass with an empty command list issues no device call and leaves
\* the recorded target dimensions, the shadow state and the device state as they
\* were.
C6_EmptyPassDoesNothing ==
    [][ ( /\ pc = "steps"
          /\ step'.stepType = "RENDER"
          /\ step'.commands = "empty"
          /\ (stepIdx' = stepIdx + 1 \/ pc' = "pass") )
        => ( /\ calls' = <<>>
             /\ pc' = "steps"
             /\ UNCHANGED <<memberVars, shadowVars, glPassVars>> ) ]_vars

\* an empty pass has run after a pass on another target, whose dimensions stay
C6_Witness ==
    /\ pc = "steps"
    /\ step.stepType = "RENDER" /\ step.commands = "empty"
    /\ Len(deleted) = stepIdx /\ stepIdx >= 1
    /\ calls = <<>>
    /\ curFBWidth_ # 0
    /\ curFBWidth_ # BoundDims(step.framebuffer)[1]

LayoutStep == cmd'.cmd = "BIND_INPUT_LAYOUT" /\ cmdIdx' = cmdIdx + 1 /\ pc' = "pass"

\* C7 (as claimed): with old shadow mask M and layout mask N, the slots enabled are
\* exactly those in N and not in M, the slots disabled exactly those in M and not
\* in N, and the shadow mask ends as N.
C7_ExactDelta ==
    [][ LayoutStep =>
          LET M == Bits(attrMask)
              N == Bits(cmd'.semanticsMask_)
          IN  /\ SlotsOf(calls', "glEnableVertexAttribArray") = N \ M
              /\ SlotsOf(calls', "glDisableVertexAttribArray") = M \ N
              /\ attrMask' = cmd'.semanticsMask_ ]_vars

\* C7 (amended): among the slots 0..6 the slots enabled are exactly those in N and
\* not in M and the slots disabled exactly those in M and not in N, each once; no
\* slot from 7 up is touched; the shadow mask ends as N.
C7_DeltaBelowSemMax ==
    [][ LayoutStep =>
          LET M == Bits(attrMask) \cap (0..(SEM_MAX - 1))
              N == Bits(cmd'.semanticsMask_) \cap (0..(SEM_MAX - 1))
          IN  /\ SlotsOf(calls', "glEnableVertexAttribArray") = N \ M
              /\ SlotsOf(calls', "glDisableVertexAttribArray") = M \ N
              /\ Count(calls', "glEnableVertexAttribArray") = Cardinality(N \ M)
              /\ Count(calls', "glDisableVertexAttribArray") = Cardinality(M \ N)
              /\ glAttribEnabled' = (glAttribEnabled \cup (N \ M)) \ (M \ N)
              /\ attrMask' = cmd'.semanticsMask_ ]_vars

\* the layout went from mask 0b0011 to mask 0b0110
C7_Witness ==
    /\ JustRan("BIND_INPUT_LAYOUT")
    /\ cmd.semanticsMask_ = 6 /\ attrMask = 6
    /\ SlotsOf(calls, "glEnableVertexAttribArray") = {2}
    /\ SlotsOf(calls, "glDisableVertexAttribArray") = {0}
    /\ glAttribEnabled = {1, 2}

\* C8: a refill of 16 names happens exactly when a call finds the pool empty (calls
\* 1, 17, ... of an uninterrupted sequence), every call takes one name out of the
\* pool, and no name is returned twice.
C8_NamePool ==
    /\ Len(returned) = allocs
    /\ \A i \in 1..Len(returned), j \in 1..Len(returned) :
          i # j => returned[i] # returned[j]
    /\ Range(returned) \cap Range(nameCache_) = {}
    /\ refills * TEXCACHE_NAME_CACHE_SIZE = allocs + Len(nameCache_) + dropped
    /\ dropped = 0 =>
          refills = (allocs + TEXCACHE_NAME_CACHE_SIZE - 1) \div TEXCACHE_NAME_CACHE_SIZE

\* the 17th call of an uninterrupted sequence has caused the second refill
C8_Witness ==
    /\ allocs = TEXCACHE_NAME_CACHE_SIZE + 1
    /\ dropped = 0
    /\ refills = 2
    /\ Len(nameCache_) = TEXCACHE_NAME_CACHE_SIZE - 1
    /\ Count(calls, "glGenTextures") = 1

\* C9: a BUFFER_SUBDATA step with the ownership flag set releases the payload
\* exactly once and after the upload call; with the flag unset it never releases it.
C9_PayloadReleasedAfterUpload ==
    JustRanInit("BUFFER_SUBDATA") =>
        /\ Count(calls, "glBufferSubData") = 1
        /\ Count(calls, "delete[]") = (IF initStep.deleteData THEN 1 ELSE 0)
        /\ \A d \in Positions(calls, "delete[]") :
              \A u \in Positions(calls, "glBufferSubData") : u < d

C9_Witness ==
    /\ JustRanInit("BUFFER_SUBDATA")
    /\ initStep.deleteData
    /\ calls[Len(calls)].fn = "delete[]"
    /\ calls[Len(calls) - 1].fn = "glBufferSubData"

\* C10: a DRAW_INDEXED command issues exactly one draw call when its instance
\* count is 1 and no device call otherwise, and the pass goes on in both cases.
C10_IndexedDrawOnlyForOneInstance ==
    cmd.cmd = "DRAW_INDEXED" =>
        /\ pc = "pass"
        /\ cmd.instances = 1 =>
              Len(calls) = 1 /\ Count(calls, "glDrawElements") = 1
        /\ cmd.instances # 1 => calls = <<>>

C10_Witness ==
    /\ JustRan("DRAW_INDEXED")
    /\ cmd.instances = 2
    /\ calls = <<>>
    /\ cmdIdx >= 1

\* C11: the steps are taken in list order, each once; a step's storage is
\* discarded exactly once, in the move that ends its execution, so that between two
\* steps every earlier step is discarded and the running step is not.
C11_StepsOnceInOrder ==
    [][ /\ deleted = [k \in 1..Len(deleted) |-> k - 1]
        /\ pc \in {"steps", "pass"} => Len(deleted) = stepIdx
        /\ stepIdx' # stepIdx /\ pc = "steps" /\ pc' = "steps" =>
              stepIdx' = stepIdx + 1 /\ deleted' = Append(deleted, stepIdx)
        /\ pc = "steps" /\ pc' = "pass" => UNCHANGED <<stepIdx, deleted>>
        /\ pc = "pass" /\ pc' = "pass" => UNCHANGED <<stepIdx, deleted, step>>
        /\ pc = "pass" /\ pc' = "steps" =>
              /\ stepIdx' = stepIdx + 1 /\ deleted' = Append(deleted, stepIdx)
              /\ step' = step
        /\ pc' = "crashed" => UNCHANGED <<stepIdx, deleted>> ]_vars

\* a non-empty render pass has ended as the second step of the list
C11_Witness ==
    /\ pc = "steps"
    /\ step.stepType = "RENDER" /\ step.commands = "nonempty"
    /\ stepIdx = 2
    /\ deleted = <<0, 1>>
    /\ CallsTo(calls, "glBindVertexArray") # <<>>

BindTextureStep == cmd'.cmd = "BINDTEXTURE" /\ cmdIdx' = cmdIdx + 1 /\ pc' = "pass"

\* C12 (as claimed): a BINDTEXTURE command changes the device's active texture
\* slot only if the requested slot differs from the current slot, which is slot 0
\* when the pass starts, and it always issues one texture bind; a first
\* BINDTEXTURE on slot 0 issues no slot change.
C12_SlotChangeOnlyWhenDifferent ==
    [][ BindTextureStep =>
          /\ Count(calls', "glBindTexture") = 1
          /\ Count(calls', "glActiveTexture") >= 1 => cmd'.slot # glActiveTex
          /\ cmdIdx = 0 /\ cmd'.slot = 0 => Count(calls', "glActiveTexture") = 0 ]_vars

JustEndedPass == pc = "steps" /\ step.stepType = "RENDER" /\ step.commands = "nonempty"

\* C13: when a non-empty render pass has finished, whatever its commands were, the
\* device has no vertex-attribute slot enabled, slot 0 active, no vertex buffer, no
\* index buffer and no vertex-format container bound, and scissoring disabled.
C13_PassLeavesDeviceClean ==
    JustEndedPass =>
        /\ glAttribEnabled = {}
        /\ glActiveTex = 0
        /\ glArrayBuffer = 0
        /\ glElementBuffer = 0
        /\ glVertexArray = 0
        /\ ~glScissorTest
        /\ calls[Len(calls)] = Call("glDisable", <<"GL_SCISSOR_TEST">>)

\* the pass that ended had enabled attribute slots and had left slot 0
C13_Witness ==
    /\ JustEndedPass
    /\ Count(calls, "glDisableVertexAttribArray") = 2
    /\ Count(calls, "glActiveTexture") = 1
    /\ glAttribEnabled = {}
    /\ glActiveTex = 0

\* the scissor switch and the color write mask after the first n calls of a log,
\* on a device where they were s0 and m0
RECURSIVE ScissorAfter(_, _, _)
ScissorAfter(log, n, s0) ==
    IF n = 0 THEN s0
    ELSE IF log[n].fn = "glEnable" /\ log[n].args = <<"GL_SCISSOR_TEST">> THEN TRUE
    ELSE IF log[n].fn = "glDisable" /\ log[n].args = <<"GL_SCISSOR_TEST">> THEN FALSE
    ELSE ScissorAfter(log, n - 1, s0)
RECURSIVE ColorMaskAfter(_, _, _)
ColorMaskAfter(log, n, m0) ==
    IF n = 0 THEN m0
    ELSE IF log[n].fn = "glColorMask" THEN log[n].args[1]
    ELSE ColorMaskAfter(log, n - 1, m0)

ClearStep == cmd'.cmd = "CLEAR" /\ cmdIdx' = cmdIdx + 1 /\ pc' = "pass"

\* C14: a CLEAR command issues one device clear, at which moment scissoring is
\* disabled and the color write mask fully open, and scissoring is enabled again
\* when the command ends; scissoring is enabled at every command boundary of a
\* non-empty pass.
C14_ClearUnscissored ==
    [][ /\ ClearStep =>
              /\ Count(calls', "glClear") = 1
              /\ \A k \in Positions(calls', "glClear") :
                    /\ ~ScissorAfter(calls', k - 1, glScissorTest)
                    /\ ColorMaskAfter(calls', k - 1, glColorMask) = 15
              /\ ScissorAfter(calls', Len(calls'), glScissorTest)
        /\ pc' = "pass" => glScissorTest' ]_vars

\* a clear has run after a command that had narrowed the color write mask
C14_Witness ==
    /\ JustRan("CLEAR")
    /\ cmdIdx = 2
    /\ "COLOR" \in cmd.clearMask
    /\ Count(calls, "glClear") = 1
    /\ glScissorTest
    /\ glColorMask = 15

\* C15 (as claimed): a uniform upload, wherever it stands in the pass, takes its
\* location from the explicit reference or by name from the program bound in the
\* shadow state; when no valid location results (no reference and no name, or a name
\* with no program bound) it issues no device call and raises no error, and the pass
\* goes on.
C15_InvalidUniformSkipped ==
    cmd.cmd \in {"UNIFORM4F", "UNIFORM4I", "UNIFORMMATRIX"} =>
        /\ pc = "pass"
        /\ Len(calls) <= 1
        /\ cmd.name = NoName /\ cmd.loc = NullLoc => calls = <<>>
        /\ cmd.name # NoName /\ curProgram = 0 => calls = <<>>

CopyCallsIssued ==
    {c \in Range(calls) :
        c.fn \in {"glCopyImageSubData", "glCopyImageSubDataNV", "glCopyImageSubDataOES"}}

\* C16 (as claimed): a COPY step with the color aspect hands the region copy the
\* color attachment of the step's source framebuffer as source and the color
\* attachment of the step's destination framebuffer as destination.
C16_ColorCopyHandles ==
    pc = "steps" /\ step.stepType = "COPY" /\ step.aspectMask = "COLOR" =>
        \A c \in CopyCallsIssued :
            /\ c.args[1] = FBColorTex(step.src)
            /\ c.args[2] = FBColorTex(step.dst)

\* C17 (as claimed): a CREATE_SHADER step releases the source text exactly once and
\* only after the compile call has been issued, whether the compile succeeds or
\* fails.
C17_SourceReleasedAfterCompile ==
    JustRanInit("CREATE_SHADER") =>
        /\ Count(calls, "delete[]") = 1
        /\ Count(calls, "glCompileShader") = 1
        /\ \A d \in Positions(calls, "delete[]") :
              \A k \in Positions(calls, "glCompileShader") : k < d

\* C17 (amended): a CREATE_SHADER step releases the source text exactly once,
\* after the call that hands the text to the device (glShaderSource) and before the
\* compile call, whether the compile succeeds or fails.
C17_SourceReleasedAfterHandover ==
    JustRanInit("CREATE_SHADER") =>
        /\ Count(calls, "delete[]") = 1
        /\ Count(calls, "glShaderSource") = 1
        /\ Count(calls, "glCompileShader") = 1
        /\ \A d \in Positions(calls, "delete[]") :
              /\ \A k \in Positions(calls, "glShaderSource") : k < d
              /\ \A k \in Positions(calls, "glCompileShader") : d < k

\* the source of a shader that failed to compile has been released
C17_Witness ==
    /\ JustRanInit("CREATE_SHADER")
    /\ compiled[initStep.shader] = "failed"
    /\ Count(calls, "glDeleteShader") = 1
    /\ Count(calls, "delete[]") = 1

\* C18 (as claimed): a TEXTURE_IMAGE step uploads into the texture its step
\* references: that texture is the one bound on the device at the upload call,
\* whatever steps ran since the texture was created.
C18_UploadGoesToStepTexture ==
    JustRanInit("TEXTURE_IMAGE") =>
        /\ Count(calls, "glTexImage2D") = 1
        /\ glBoundTexture = textures[initStep.texture].texture

\* C19: inside a non-empty render pass, which starts with no attribute slot
\* enabled on the device, after every command the set of slots enabled on the
\* device equals the shadow enabled-attribute mask, as long as the mask uses only
\* slots 0..6.
C19_DeviceSlotsMatchShadow ==
    pc = "pass" /\ Bits(attrMask) \subseteq 0..(SEM_MAX - 1) =>
        glAttribEnabled = Bits(attrMask)

\* a draw has run after a layout that enabled slots 0 and 1
C19_Witness ==
    /\ JustRan("DRAW")
    /\ cmdIdx = 2
    /\ attrMask = 3
    /\ glAttribEnabled = {0, 1}

\* C20 (as claimed): after any prefix of an init batch no shader record holds a
\* device handle that the interpreter has released, and a CREATE_PROGRAM step never
\* attaches a shader handle deleted after a failed compile.
C20_NoReleasedHandleKept ==
    /\ \A sid \in ShaderIds :
          shaders[sid].shader # 0 => shaders[sid].shader \notin glDeletedShaders
    /\ JustRanInit("CREATE_PROGRAM") =>
          \A c \in Range(CallsTo(calls, "glAttachShader")) :
              \A sid \in ShaderIds :
                  compiled[sid] = "failed" => c.args[2] # shaders[sid].shader

\* ======================================================= specifications
\* one specification per entry point of the runner
SpecAlloc == InitAlloc /\ [][NextAlloc]_vars
SpecRender == InitRender /\ [][NextRender]_vars
SpecInit == InitInit /\ [][NextInit]_vars
====
